---- MODULE Spec2Model ----
(***************************************************************************)
(* Model of bitvm/src/signatures/wots_api.rs: the two macro-generated WOTS *)
(* modules wots_hash (16-byte messages) and wots256 (32-byte messages),    *)
(* their wire codec, and the signing / key generation / verification they  *)
(* delegate to the winternitz module.                                      *)
(*                                                                         *)
(* Sequences are 1-based: position i of the source (0..N_DIGITS-1) is      *)
(* index i+1 here, and witness slot j of the source is index j+1.          *)
(***************************************************************************)
EXTENDS Integers, Sequences, FiniteSets, TLC

VARIABLES
    mod,        \* the instantiation in use: "wots_hash" or "wots256"
    secret,     \* the caller's secret: a string, as a sequence of characters
    message,    \* the caller's message: a sequence of bytes
    pk,         \* result of generate_public_key, or <<>> before it ran
    sig,        \* the caller's current full Signature value, or <<>>
    orig,       \* the Signature as get_signature returned it, or <<>>
    csig,       \* the caller's current compact Signature value, or <<>>
    witness,    \* the caller's current Witness (sequence of byte groups)
    wsrc,       \* where witness came from: "none", "full", "compact", "external"
    decoded,    \* the Signature a decoder returned, or <<>>
    op,         \* the last operation called
    outcome,    \* how it ended: "none", "ok", or the abort it raised
    verdict,    \* result of running the verifier script: "none", "pass", "fail"
    recovered,  \* digits the compact verifier recovered, or <<>>
    ntamper,    \* how many positions of sig were altered since get_signature
    derived     \* Parameters derivation under test: [len, ps], ps = <<>> before

vars == <<mod, secret, message, pk, sig, orig, csig, witness, wsrc, decoded,
          op, outcome, verdict, recovered, ntamper, derived>>

\* the wire codec's part of the state
codec == <<witness, wsrc, decoded>>

----------------------------------------------------------------------------
(* Bounds of the model *)

\* message lengths (bytes) the parameter derivation is exercised on
MaxMsgLen == 64
\* how many positions of a signature the caller may alter
MaxTamper == 2

----------------------------------------------------------------------------
(* Program constants *)

\* the 160-bit message length the macro's comment names
HASH_LEN_160 == 16 + 4
HASH_LEN == 16
BIGINT_LEN == 32
\* digit width handed to new_by_bit_length
BlockLen == 4
\* width of a chain value / public key entry: [u8; 20]
HashLen == 20

Mods == {"wots_hash", "wots256"}

MSG_LEN(m) == IF m = "wots_hash" THEN HASH_LEN ELSE BIGINT_LEN

----------------------------------------------------------------------------
(* winternitz::Parameters *)

RECURSIVE Pow(_, _)
Pow(b, e) == IF e = 0 THEN 1 ELSE b * Pow(b, e - 1)

DivCeil(a, b) == (a + b - 1) \div b

\* Number of base-`base` digits needed for every value in 0..max: multiply
\* until the power exceeds max.
RECURSIVE DigitsToHold(_, _, _, _)
DigitsToHold(max, base, k, cur) ==
    IF cur > max THEN k ELSE DigitsToHold(max, base, k + 1, cur * base)

\* Parameters::new_by_bit_length(number_of_bits, block_length)
new_by_bit_length(number_of_bits, block_length) ==
    LET n == DivCeil(number_of_bits, block_length)
        d == Pow(2, block_length) - 1
    IN  [ message_length  |-> n,
          block_length    |-> block_length,
          checksum_length |-> DigitsToHold(d * n, d + 1, 0, 1) ]

\* Parameters::total_digit_len
total_digit_len(ps) == ps.message_length + ps.checksum_length

\* the largest digit value, 2^block_length - 1
MaxDigit(ps) == Pow(2, ps.block_length) - 1

PS(m) == new_by_bit_length(MSG_LEN(m) * 8, BlockLen)

N_DIGITS(m) == total_digit_len(PS(m))

----------------------------------------------------------------------------
(* Bytes, hex strings, minimal integer encodings *)

Zeros(n) == [i \in 1..n |-> 0]

HexChars == {"0","1","2","3","4","5","6","7","8","9",
             "a","b","c","d","e","f","A","B","C","D","E","F"}

HexVal(c) ==
    CASE c = "0" -> 0  [] c = "1" -> 1  [] c = "2" -> 2  [] c = "3" -> 3
      [] c = "4" -> 4  [] c = "5" -> 5  [] c = "6" -> 6  [] c = "7" -> 7
      [] c = "8" -> 8  [] c = "9" -> 9
      [] c \in {"a", "A"} -> 10  [] c \in {"b", "B"} -> 11
      [] c \in {"c", "C"} -> 12  [] c \in {"d", "D"} -> 13
      [] c \in {"e", "E"} -> 14  [] c \in {"f", "F"} -> 15

\* Vec::<u8>::from_hex(secret): an even number of hex characters, or an error
from_hex(s) ==
    IF Len(s) % 2 = 0 /\ \A i \in 1..Len(s) : s[i] \in HexChars
    THEN [ ok  |-> TRUE,
           val |-> [i \in 1..(Len(s) \div 2) |->
                       16 * HexVal(s[2 * i - 1]) + HexVal(s[2 * i])] ]
    ELSE [ ok |-> FALSE, val |-> <<>> ]

\* utils::u32_to_le_bytes_minimal: little-endian bytes, high zero bytes dropped
RECURSIVE u32_to_le_bytes_minimal(_)
u32_to_le_bytes_minimal(a) ==
    IF a = 0 THEN <<>>
    ELSE <<a % 256>> \o u32_to_le_bytes_minimal(a \div 256)

\* How script! pushes the u8 `digit`: a minimally encoded script number
\* (empty for 0, a sign-magnitude little-endian number otherwise).
ScriptNum(d) ==
    IF d = 0 THEN <<>> ELSE IF d < 128 THEN <<d>> ELSE <<d, 0>>

\* The number a stack element stands for, or -1 when it is not one of the
\* encodings above.
ScriptNumValue(b) ==
    IF Len(b) = 0 THEN 0
    ELSE IF Len(b) = 1 /\ b[1] \in 1..127 THEN b[1]
    ELSE IF Len(b) = 2 /\ b[1] \in 128..255 /\ b[2] = 0 THEN b[1]
    ELSE -1

----------------------------------------------------------------------------
(* The hash-chain primitive and key derivation (winternitz module) *)

\* The 20-byte hash: deterministic and collision-free, with no cycle shorter
\* than 256 applications.
Hash160(v) == [v EXCEPT ![HashLen] = (v[HashLen] + 1) % 256]

\* n applications of Hash160
HashN(v, n) == [v EXCEPT ![HashLen] = (v[HashLen] + n) % 256]

\* The seed of position i (0-based) under secret key sk: distinct for
\* distinct (sk, i).
Seed(sk, i) ==
    [j \in 1..HashLen |->
        IF j = 1 THEN Len(sk)
        ELSE IF j - 1 <= Len(sk) THEN sk[j - 1]
        ELSE IF j = HashLen - 1 THEN i
        ELSE 0]

\* winternitz::generate_public_key(ps, secret_key)
winternitz_generate_public_key(ps, sk) ==
    [i \in 1..total_digit_len(ps) |-> HashN(Seed(sk, i - 1), MaxDigit(ps))]

\* The message as message_length digits of 4 bits, high nibble first.
MessageDigits(ps, msg) ==
    [j \in 1..ps.message_length |->
        IF j % 2 = 1 THEN msg[(j + 1) \div 2] \div 16
                     ELSE msg[j \div 2] % 16]

RECURSIVE SumSeq(_, _)
SumSeq(f, n) == IF n = 0 THEN 0 ELSE f[n] + SumSeq(f, n - 1)

\* checksum = sum of (d - digit) over the message digits
Checksum(ps, digits) ==
    SumSeq([j \in 1..ps.message_length |-> MaxDigit(ps) - digits[j]],
           ps.message_length)

\* the checksum as checksum_length digits, most significant first
ChecksumDigits(ps, c) ==
    [j \in 1..ps.checksum_length |->
        (c \div Pow(MaxDigit(ps) + 1, ps.checksum_length - j))
            % (MaxDigit(ps) + 1)]

\* message digits followed by checksum digits
AllDigits(ps, msg) ==
    LET md == MessageDigits(ps, msg)
    IN  md \o ChecksumDigits(ps, Checksum(ps, md))

\* WINTERNITZ_MESSAGE_VERIFIER.sign(ps, secret_key, message): refuses a
\* message of the wrong length, else the witness of 2 * total_digit_len groups
\* (chain value, minimal digit encoding).
sign(ps, sk, msg) ==
    IF Len(msg) * 8 # ps.message_length * ps.block_length
    THEN [ ok |-> FALSE, err |-> "MessageLengthMismatch", val |-> <<>> ]
    ELSE LET ds == AllDigits(ps, msg)
         IN  [ ok  |-> TRUE, err |-> "",
               val |-> [j \in 1..(2 * total_digit_len(ps)) |->
                          IF j % 2 = 1
                          THEN HashN(Seed(sk, (j - 1) \div 2), ds[(j + 1) \div 2])
                          ELSE u32_to_le_bytes_minimal(ds[j \div 2])] ]

\* WINTERNITZ_MESSAGE_COMPACT_VERIFIER.sign: the chain values only.
compact_sign(ps, sk, msg) ==
    IF Len(msg) * 8 # ps.message_length * ps.block_length
    THEN [ ok |-> FALSE, err |-> "MessageLengthMismatch", val |-> <<>> ]
    ELSE LET ds == AllDigits(ps, msg)
         IN  [ ok  |-> TRUE, err |-> "",
               val |-> [i \in 1..total_digit_len(ps) |->
                          HashN(Seed(sk, i - 1), ds[i])] ]

----------------------------------------------------------------------------
(* wots_api.rs: the module generated by impl_wots! for instantiation m *)

Ok(v) == [ ok |-> TRUE, err |-> "", val |-> v ]
Abort(e) == [ ok |-> FALSE, err |-> e, val |-> <<>> ]

PanicHex == "panic: Invalid hex string for secret"
PanicUnwrap == "panic: unwrap on a failed conversion"
PanicIndex == "panic: index out of bounds"
PanicAssert == "panic: assertion failed"

\* to_script pushing each pair in the wrong order
to_script_swapped(signature) ==
    [j \in 1..(2 * Len(signature)) |->
        IF j % 2 = 1 THEN ScriptNum(signature[(j + 1) \div 2].digit)
                     ELSE signature[j \div 2].preimage]

\* SignatureImpl::to_script: per pair, the preimage then the digit
to_script(signature) ==
    [j \in 1..(2 * Len(signature)) |->
        IF j % 2 = 1 THEN signature[(j + 1) \div 2].preimage
                     ELSE ScriptNum(signature[j \div 2].digit)]

\* to_compact_script pushing the preimages last position first
to_compact_script_reversed(signature) ==
    [i \in 1..Len(signature) |-> signature[Len(signature) + 1 - i].preimage]

\* SignatureImpl::to_compact_script: the preimages only
to_compact_script(signature) ==
    [i \in 1..Len(signature) |-> signature[i].preimage]

\* checksig_verify(public_key): the verifier script for public_key
checksig_verify(m, public_key) ==
    [ kind |-> "full", ps |-> PS(m), public_key |-> public_key ]

\* compact::checksig_verify(public_key)
compact_checksig_verify(m, public_key) ==
    [ kind |-> "compact", ps |-> PS(m), public_key |-> public_key ]

\* Iteration k (1-based) of the decoding loop reads slots 2k-1 and 2k.
PreimageFails(w, k) == Len(w[2 * k - 1]) \notin {0, HashLen}
IndexFails(w, k) == 2 * k > Len(w)
DigitFails(w, k) == Len(w[2 * k]) \notin {0, 1}
PairFails(w, k) ==
    PreimageFails(w, k) \/ IndexFails(w, k) \/ DigitFails(w, k)

DecodePair(w, k) ==
    [ preimage |-> IF Len(w[2 * k - 1]) = 0 THEN Zeros(HashLen)
                   ELSE w[2 * k - 1],
      digit    |-> IF Len(w[2 * k]) = 0 THEN 0 ELSE w[2 * k][1] ]

\* raw_witness_to_signature keeping whatever number of pairs it decoded
raw_witness_to_signature_lenient(m, w) ==
    LET iters == DivCeil(Len(w), 2)
        bad   == {k \in 1..iters : PairFails(w, k)}
    IN  IF bad # {}
        THEN LET k == CHOOSE x \in bad : \A y \in bad : x <= y
             IN  IF PreimageFails(w, k) THEN Abort(PanicUnwrap)
                 ELSE IF IndexFails(w, k) THEN Abort(PanicIndex)
                 ELSE Abort(PanicUnwrap)
        ELSE Ok([k \in 1..iters |-> DecodePair(w, k)])

\* raw_witness_to_signature(signature: &Witness) -> Signature
raw_witness_to_signature(m, w) ==
    LET iters == DivCeil(Len(w), 2)
        bad   == {k \in 1..iters : PairFails(w, k)}
    IN  IF bad # {}
        THEN LET k == CHOOSE x \in bad : \A y \in bad : x <= y
             IN  IF PreimageFails(w, k) THEN Abort(PanicUnwrap)
                 ELSE IF IndexFails(w, k) THEN Abort(PanicIndex)
                 ELSE Abort(PanicUnwrap)
        ELSE IF iters # N_DIGITS(m) THEN Abort(PanicUnwrap)
        ELSE Ok([k \in 1..iters |-> DecodePair(w, k)])

\* signature_to_raw_witness pushing the digit byte as it is, zero included
signature_to_raw_witness_byte(signature) ==
    [j \in 1..(2 * Len(signature)) |->
        IF j % 2 = 1 THEN signature[(j + 1) \div 2].preimage
                     ELSE <<signature[j \div 2].digit>>]

\* signature_to_raw_witness pushing the digit as the four bytes of a u32
signature_to_raw_witness_u32(signature) ==
    [j \in 1..(2 * Len(signature)) |->
        IF j % 2 = 1 THEN signature[(j + 1) \div 2].preimage
                     ELSE LET d == signature[j \div 2].digit
                          IN  <<d, 0, 0, 0>>]

\* signature_to_raw_witness(signature: &Signature) -> Witness
signature_to_raw_witness(signature) ==
    [j \in 1..(2 * Len(signature)) |->
        IF j % 2 = 1 THEN signature[(j + 1) \div 2].preimage
                     ELSE u32_to_le_bytes_minimal(signature[j \div 2].digit)]

\* get_signature cutting or zero-padding the message to MSG_LEN bytes
get_signature_resizing(m, sec, msg) ==
    LET h == from_hex(sec)
        fitted == [i \in 1..MSG_LEN(m) |-> IF i <= Len(msg) THEN msg[i] ELSE 0]
    IN  IF ~h.ok THEN Abort(PanicHex)
        ELSE raw_witness_to_signature(m, sign(PS(m), h.val, fitted).val)

\* get_signature(secret, message) -> Signature
get_signature(m, sec, msg) ==
    LET h == from_hex(sec)
    IN  IF ~h.ok THEN Abort(PanicHex)
        ELSE LET sigs == sign(PS(m), h.val, msg)
             IN  IF ~sigs.ok THEN Abort(sigs.err)
                 ELSE IF Len(sigs.val) # 2 * N_DIGITS(m) THEN Abort(PanicAssert)
                 ELSE raw_witness_to_signature(m, sigs.val)

\* generate_public_key falling back to the empty secret on a decode error
generate_public_key_defaulting(m, sec) ==
    LET h == from_hex(sec)
    IN  Ok(winternitz_generate_public_key(PS(m), IF h.ok THEN h.val ELSE <<>>))

\* generate_public_key(secret) -> PublicKey
generate_public_key(m, sec) ==
    LET h == from_hex(sec)
    IN  IF ~h.ok THEN Abort(PanicHex)
        ELSE LET pubkey_vec == winternitz_generate_public_key(PS(m), h.val)
             IN  IF Len(pubkey_vec) # N_DIGITS(m) THEN Abort(PanicUnwrap)
                 ELSE Ok(pubkey_vec)

\* compact::raw_witness_to_signature(signature: &Witness) -> compact::Signature
compact_raw_witness_to_signature(m, w) ==
    IF \E i \in 1..Len(w) : Len(w[i]) \notin {0, HashLen}
        THEN Abort(PanicUnwrap)
    ELSE IF Len(w) # N_DIGITS(m) THEN Abort(PanicUnwrap)
    ELSE Ok([i \in 1..Len(w) |->
                IF Len(w[i]) = 0 THEN Zeros(HashLen) ELSE w[i]])

\* compact::signature_to_raw_witness(signature: &compact::Signature) -> Witness
compact_signature_to_raw_witness(signature) ==
    [i \in 1..Len(signature) |-> signature[i]]

\* compact::get_signature(secret, message) -> compact::Signature
compact_get_signature(m, sec, msg) ==
    LET h == from_hex(sec)
    IN  IF ~h.ok THEN Abort(PanicHex)
        ELSE LET sigs == compact_sign(PS(m), h.val, msg)
             IN  IF ~sigs.ok THEN Abort(sigs.err)
                 ELSE IF Len(sigs.val) # N_DIGITS(m) THEN Abort(PanicAssert)
                 ELSE compact_raw_witness_to_signature(m, sigs.val)

----------------------------------------------------------------------------
(* Running a verifier script against the elements a signature script pushed *)

\* check (a) at position i: the chain value continued d - digit times is
\* the public key's entry (d the largest digit value)
ChainHolds(public_key, d, chain, digit, i) ==
    /\ Len(chain) = HashLen
    /\ digit \in 0..d
    /\ HashN(chain, d - digit) = public_key[i]

\* a verifier that leaves the checksum out
ChecksumUnchecked(ps, d, digits) == \A i \in 1..Len(digits) : digits[i] \in 0..d

\* check (b): the digits at the checksum positions are the checksum of the
\* message digits
ChecksumHolds(ps, d, digits) ==
    /\ \A i \in 1..Len(digits) : digits[i] \in 0..d
    /\ LET md == [j \in 1..ps.message_length |-> digits[j]]
           cd == ChecksumDigits(ps, Checksum(ps, md))
       IN  \A j \in 1..ps.checksum_length :
               digits[ps.message_length + j] = cd[j]

\* The digit the compact verifier finds for a chain value: the first digit,
\* ascending, whose continuation is the public key's entry; -1 if none.
RecoverDigit(public_key, d, chain, i) ==
    LET fit == {dg \in 0..d : ChainHolds(public_key, d, chain, dg, i)}
    IN  IF fit = {} THEN -1
        ELSE CHOOSE dg \in fit : \A e \in fit : dg <= e

RecoveredDigits(prog, items) ==
    LET d == MaxDigit(prog.ps)
    IN  [i \in 1..Len(items) |-> RecoverDigit(prog.public_key, d, items[i], i)]

\* a verifier satisfied by a majority of the positions
MajorityAccepts(n, good) == 2 * Cardinality(good) > n

\* verification needs the check to hold at every one of the n positions;
\* good is the set of positions where it does
Accepts(n, good) == good = 1..n

\* Whether the script `items ++ prog` executes to success.
Execute(prog, items) ==
    LET n == total_digit_len(prog.ps)
        d == MaxDigit(prog.ps)
    IN  IF prog.kind = "full"
        THEN /\ Len(items) = 2 * n
             /\ LET digits == [i \in 1..n |-> ScriptNumValue(items[2 * i])]
                    good == {i \in 1..n :
                                ChainHolds(prog.public_key, d,
                                           items[2 * i - 1], digits[i], i)}
                IN  /\ Accepts(n, good)
                    /\ ChecksumHolds(prog.ps, d, digits)
        ELSE /\ Len(items) = n
             /\ LET digits == RecoveredDigits(prog, items)
                    good == {i \in 1..n : digits[i] >= 0}
                IN  /\ Accepts(n, good)
                    /\ ChecksumHolds(prog.ps, d, digits)

----------------------------------------------------------------------------
(* Inputs the callers are given *)

\* "01" and "" decode; "a" has odd length and "g1" holds a non-hex character
Secrets == { <<"0", "1">>, <<>>, <<"a">>, <<"g", "1">> }

MsgRamp(n) == [i \in 1..n |-> (i * 37 + 5) % 256]
MsgFill(n, b) == [i \in 1..n |-> b]

OtherMod(m) == IF m = "wots_hash" THEN "wots256" ELSE "wots_hash"

Messages(m) ==
    { MsgRamp(MSG_LEN(m)), MsgFill(MSG_LEN(m), 255),
      MsgRamp(MSG_LEN(m) - 1), MsgRamp(MSG_LEN(m) + 1), MsgRamp(0),
      MsgRamp(MSG_LEN(OtherMod(m))) }

\* positions (1-based) a caller alters: the first and the last message
\* digit, the first and the last checksum digit
TamperPositions(m) ==
    { 1, PS(m).message_length, PS(m).message_length + 1, N_DIGITS(m) }

TamperDigits == 0..15 \cup {16, 255}

\* how far a caller hashes a chain value forward
AdvanceSteps == {1, 2, 15}

Predecessor(v) == [v EXCEPT ![HashLen] = (v[HashLen] + 255) % 256]

ChainChoices(s, p) ==
    { Zeros(HashLen), Hash160(s[p].preimage), Predecessor(s[p].preimage),
      s[(p % Len(s)) + 1].preimage }

NoPS == [ message_length |-> 0, block_length |-> 0, checksum_length |-> 0 ]

----------------------------------------------------------------------------
(* A caller's session with one instantiation *)

\* a panic unwinds the caller: nothing runs after it
Alive == outcome \in {"none", "ok"}

Init ==
    /\ mod \in Mods
    /\ secret \in Secrets
    /\ message \in Messages(mod)
    /\ pk = <<>> /\ sig = <<>> /\ orig = <<>> /\ csig = <<>>
    /\ witness = <<>> /\ wsrc = "none" /\ decoded = <<>>
    /\ op = "init" /\ outcome = "none" /\ verdict = "none"
    /\ recovered = <<>> /\ ntamper = 0
    /\ derived = [len |-> 0, ps |-> NoPS]

GeneratePublicKey ==
    /\ Alive /\ pk = <<>>
    /\ LET r == generate_public_key(mod, secret)
       IN  /\ pk' = r.val
           /\ outcome' = IF r.ok THEN "ok" ELSE r.err
    /\ op' = "generate_public_key"
    /\ UNCHANGED <<mod, secret, message, sig, orig, csig, codec, verdict,
                   recovered, ntamper, derived>>

GetSignature ==
    /\ Alive /\ sig = <<>>
    /\ LET r == get_signature(mod, secret, message)
       IN  /\ sig' = r.val
           /\ orig' = r.val
           /\ outcome' = IF r.ok THEN "ok" ELSE r.err
    /\ op' = "get_signature"
    /\ UNCHANGED <<mod, secret, message, pk, csig, codec, verdict,
                   recovered, ntamper, derived>>

CompactGetSignature ==
    /\ Alive /\ csig = <<>>
    /\ LET r == compact_get_signature(mod, secret, message)
       IN  /\ csig' = r.val
           /\ outcome' = IF r.ok THEN "ok" ELSE r.err
    /\ op' = "compact::get_signature"
    /\ UNCHANGED <<mod, secret, message, pk, sig, orig, codec, verdict,
                   recovered, ntamper, derived>>

\* The caller may alter a signature it holds: one position in any way, or
\* the digits of several message positions (in ascending order, each once).
CanTamper(p) ==
    /\ Alive /\ sig # <<>> /\ pk # <<>> /\ csig # <<>>
    /\ ntamper < MaxTamper
    /\ \A q \in p..Len(sig) : sig[q] = orig[q]

CanTamperDigit(p) ==
    /\ CanTamper(p)
    /\ \/ ntamper = 0
       \/ /\ p <= PS(mod).message_length
          /\ \A q \in 1..Len(sig) :
                 sig[q] # orig[q] => sig[q].digit # orig[q].digit

Tampered(s) ==
    /\ sig' = s
    /\ ntamper' = ntamper + 1
    /\ verdict' = "none" /\ recovered' = <<>>
    /\ op' = "tamper"
    /\ UNCHANGED <<mod, secret, message, pk, orig, csig, codec, outcome,
                   derived>>

\* replace the digit of one position
TamperDigit ==
    \E p \in TamperPositions(mod), d \in TamperDigits :
        /\ CanTamperDigit(p)
        /\ d # sig[p].digit
        /\ Tampered([sig EXCEPT ![p].digit = d])

\* replace the chain value of one position
TamperChain ==
    \E p \in TamperPositions(mod) :
        /\ CanTamper(p) /\ ntamper = 0
        /\ \E v \in ChainChoices(sig, p) \ {sig[p].preimage} :
               Tampered([sig EXCEPT ![p].preimage = v])

\* raise a digit by k and hash the chain value k times further, as anyone
\* holding the signature can
TamperAdvance ==
    \E p \in TamperPositions(mod), k \in AdvanceSteps :
        /\ CanTamperDigit(p)
        /\ sig[p].digit + k <= 15
        /\ Tampered([sig EXCEPT ![p] =
                        [ preimage |-> HashN(sig[p].preimage, k),
                          digit    |-> sig[p].digit + k ]])

\* run checksig_verify(pk) against sig.to_script()
CheckSigVerify ==
    /\ Alive /\ pk # <<>> /\ sig # <<>> /\ verdict = "none"
    /\ verdict' = IF Execute(checksig_verify(mod, pk), to_script(sig))
                  THEN "pass" ELSE "fail"
    /\ op' = "checksig_verify"
    /\ UNCHANGED <<mod, secret, message, pk, sig, orig, csig, codec,
                   outcome, recovered, ntamper, derived>>

\* run compact::checksig_verify(pk) against sig.to_compact_script()
CompactCheckSigVerify ==
    /\ Alive /\ pk # <<>> /\ sig # <<>> /\ verdict = "none"
    /\ LET prog  == compact_checksig_verify(mod, pk)
           items == to_compact_script(sig)
       IN  /\ verdict' = IF Execute(prog, items) THEN "pass" ELSE "fail"
           /\ recovered' = RecoveredDigits(prog, items)
    /\ op' = "compact::checksig_verify"
    /\ UNCHANGED <<mod, secret, message, pk, sig, orig, csig, codec,
                   outcome, ntamper, derived>>

Next ==
    \/ GeneratePublicKey
    \/ GetSignature
    \/ CompactGetSignature
    \/ TamperDigit
    \/ TamperChain
    \/ TamperAdvance
    \/ CheckSigVerify
    \/ CompactCheckSigVerify

Spec == Init /\ [][Next]_vars

----------------------------------------------------------------------------
(* Properties of signing and verification, checked under Spec *)

SecretOk == from_hex(secret).ok
MessageOk == Len(message) = MSG_LEN(mod)

\* the checksum of the message digits of signature s: sum of (15 - digit)
MessageChecksum(s) ==
    SumSeq([j \in 1..PS(mod).message_length |-> 15 - s[j].digit],
           PS(mod).message_length)

\* the number the digits at the checksum positions of s spell, base 16
ChecksumPositions(s) ==
    LET k == PS(mod).checksum_length
        n == PS(mod).message_length
    IN  SumSeq([j \in 1..k |-> s[n + j].digit * Pow(16, k - j)], k)

ChainContinues(s, i) ==
    /\ s[i].digit \in 0..15
    /\ HashN(s[i].preimage, 15 - s[i].digit) = pk[i]

Changed == {i \in 1..Len(sig) : sig[i] # orig[i]}

\* C1: the verifier for generate_public_key(secret) accepts
\* get_signature(secret, message): at every position the chain value
\* continued 15 - digit times is the public key's entry, and the checksum
\* digits are the checksum of the message digits.
C1_Soundness ==
    (pk # <<>> /\ sig # <<>> /\ ntamper = 0) =>
        /\ Len(pk) = N_DIGITS(mod) /\ Len(sig) = N_DIGITS(mod)
        /\ \A i \in 1..Len(sig) : ChainContinues(sig, i)
        /\ MessageChecksum(sig) = ChecksumPositions(sig)
        /\ (op = "checksig_verify" => verdict = "pass")

C1_Witness ==
    /\ op = "checksig_verify" /\ ntamper = 0 /\ verdict = "pass"
    /\ mod = "wots256" /\ secret = <<"0", "1">>

\* exactly one position differs from the valid signature, in its chain value
\* alone or in its digit alone
OnePositionChanged ==
    /\ Cardinality(Changed) = 1
    /\ \A i \in Changed :
           (sig[i].preimage = orig[i].preimage) # (sig[i].digit = orig[i].digit)

\* C2: a valid signature with one position's chain value or one position's
\* digit changed is rejected, and whatever is accepted passes the chain check
\* and the checksum check at every position.
C2_SingleChangeRejected ==
    (op = "checksig_verify") =>
        /\ OnePositionChanged => verdict = "fail"
        /\ verdict = "pass" =>
               /\ \A i \in 1..Len(sig) : ChainContinues(sig, i)
               /\ MessageChecksum(sig) = ChecksumPositions(sig)

C2_Witness ==
    /\ op = "checksig_verify" /\ OnePositionChanged /\ verdict = "fail"
    /\ \E i \in Changed : sig[i].preimage # orig[i].preimage

\* C5: compact::get_signature returns the chain values of get_signature
\* (the elements to_compact_script pushes), and the digits the compact
\* verifier recovers by ascending search are the full signature's digits.
C5_CompactFullEquivalence ==
    /\ (csig # <<>> /\ orig # <<>>) =>
           /\ Len(csig) = Len(orig)
           /\ \A i \in 1..Len(orig) :
                  /\ csig[i] = orig[i].preimage
                  /\ csig[i] = to_compact_script(orig)[i]
    /\ (op = "compact::checksig_verify" /\ ntamper = 0) =>
           /\ verdict = "pass"
           /\ Len(recovered) = Len(orig)
           /\ \A i \in 1..Len(orig) : recovered[i] = orig[i].digit

C5_Witness ==
    /\ op = "compact::checksig_verify" /\ ntamper = 0 /\ csig # <<>>
    /\ \E i \in 1..Len(orig) : recovered[i] = 0
    /\ \E i \in 1..Len(orig) : recovered[i] = 15

\* some message digits were replaced by other digits in 0..15 (the chain
\* value left alone or hashed forward to fit), nothing else was touched
MessageDigitsAltered ==
    /\ Changed # {}
    /\ \A i \in Changed :
           /\ i <= PS(mod).message_length
           /\ sig[i].digit # orig[i].digit
           /\ sig[i].digit \in 0..15

\* C6 as stated: after such a change the checksum positions no longer match
\* the checksum of the message digits.
C6_ChecksumAlwaysMismatches ==
    (op = "checksig_verify" /\ MessageDigitsAltered) =>
        MessageChecksum(sig) # ChecksumPositions(sig)

\* C6, amended: after such a change verification fails; the checksum
\* positions stop matching exactly when the sum of the message digits changed.
C6_AlteredDigitsRejected ==
    (op = "checksig_verify" /\ MessageDigitsAltered) =>
        /\ verdict = "fail"
        /\ (MessageChecksum(sig) = ChecksumPositions(sig))
               <=> (MessageChecksum(sig) = MessageChecksum(orig))

C6_Witness ==
    /\ op = "checksig_verify" /\ MessageDigitsAltered /\ verdict = "fail"
    /\ Cardinality(Changed) = 2
    /\ \A i \in Changed : sig[i].preimage # orig[i].preimage

KeyOps == {"generate_public_key", "get_signature", "compact::get_signature"}

\* C8 as stated: an undecodable secret is reported as the error value
\* InvalidSecretEncoding, without unwinding.
C8_TypedSecretError ==
    (op \in KeyOps /\ ~SecretOk) => outcome = "InvalidSecretEncoding"

\* C8, amended: with an undecodable secret the three operations panic with
\* "Invalid hex string for secret"; no key and no signature comes back.
C8_InvalidSecretPanics ==
    ~SecretOk =>
        /\ pk = <<>> /\ sig = <<>> /\ csig = <<>>
        /\ op \in KeyOps => outcome = PanicHex

C8_Witness ==
    /\ op = "compact::get_signature" /\ secret = <<"a">>
    /\ outcome = PanicHex /\ csig = <<>>

SignOps == {"get_signature", "compact::get_signature"}

----------------------------------------------------------------------------
(* Parameter derivation on its own: SpecParams *)

InitParams ==
    /\ mod = "wots_hash" /\ secret = <<>> /\ message = <<>>
    /\ pk = <<>> /\ sig = <<>> /\ orig = <<>> /\ csig = <<>>
    /\ witness = <<>> /\ wsrc = "none" /\ decoded = <<>>
    /\ op = "init" /\ outcome = "none" /\ verdict = "none"
    /\ recovered = <<>> /\ ntamper = 0
    /\ \E len \in 1..MaxMsgLen : derived = [len |-> len, ps |-> NoPS]

\* Parameters::new_by_bit_length(MSG_LEN * 8, 4) for a message length
DeriveParameters ==
    /\ derived.ps = NoPS
    /\ derived' = [derived EXCEPT
                      !.ps = new_by_bit_length(derived.len * 8, BlockLen)]
    /\ op' = "new_by_bit_length"
    /\ UNCHANGED <<mod, secret, message, pk, sig, orig, csig, codec, outcome,
                   verdict, recovered, ntamper>>

NextParams == DeriveParameters

SpecParams == InitParams /\ [][NextParams]_vars

----------------------------------------------------------------------------
(* The wire codec: SpecCodec *)

\* Signature values a caller may hold, whatever produced them
SampleDigits == {0, 1, 15, 16, 255}
SamplePreimages == { Zeros(HashLen), MsgFill(HashLen, 255) }

BaseSignature(m) ==
    [i \in 1..N_DIGITS(m) |->
        [ preimage |-> [j \in 1..HashLen |-> (i + j) % 256],
          digit    |-> (i * 7) % 16 ]]

SampleSignatures(m) ==
    LET b == BaseSignature(m)
    IN  {b, [i \in 1..N_DIGITS(m) |-> [preimage |-> Zeros(HashLen), digit |-> 0]]}
        \cup {[b EXCEPT ![p].digit = d] :
                 p \in {1, N_DIGITS(m)}, d \in SampleDigits}
        \cup {[b EXCEPT ![p].preimage = v] :
                 p \in {1, N_DIGITS(m)}, v \in SamplePreimages}

SampleCompactSignatures(m) ==
    {[i \in 1..N_DIGITS(m) |-> s[i].preimage] : s \in SampleSignatures(m)}

\* Witnesses a caller may be handed: group counts around the expected ones
\* and those of the other instantiation, one group possibly replaced
SampleCounts(m) ==
    { 0, 1, N_DIGITS(m) - 1, N_DIGITS(m), N_DIGITS(m) + 1,
      2 * N_DIGITS(m) - 2, 2 * N_DIGITS(m) - 1, 2 * N_DIGITS(m),
      2 * N_DIGITS(m) + 1, 2 * N_DIGITS(m) + 2,
      N_DIGITS(OtherMod(m)), 2 * N_DIGITS(OtherMod(m)) }

SampleGroups ==
    { <<>>, <<0>>, <<9>>, <<200>>, <<1, 2>>,
      MsgFill(HashLen - 1, 7), MsgFill(HashLen, 9), MsgFill(HashLen + 1, 7) }

\* alternating 20-byte groups and digit groups (every third one empty)
FullPattern(c) ==
    [j \in 1..c |->
        IF j % 2 = 1 THEN [x \in 1..HashLen |-> (j + x) % 256]
        ELSE IF j % 3 = 0 THEN <<>> ELSE <<(j \div 2) % 16>>]

\* 20-byte groups only
CompactPattern(c) == [j \in 1..c |-> [x \in 1..HashLen |-> (j + x) % 256]]

SampleWitnesses(m) ==
    LET base == {FullPattern(c) : c \in SampleCounts(m)}
                \cup {CompactPattern(c) : c \in SampleCounts(m)}
    IN  base \cup {[w EXCEPT ![slot] = g] :
                      w \in {x \in base : Len(x) >= 2},
                      slot \in {1, 2}, g \in SampleGroups}

InitCodec ==
    /\ mod \in Mods
    /\ secret \in { <<"0", "1">>, <<>> }
    /\ message \in { MsgRamp(MSG_LEN(mod)), MsgFill(MSG_LEN(mod), 255) }
    /\ pk = <<>> /\ sig = <<>> /\ orig = <<>> /\ csig = <<>>
    /\ witness = <<>> /\ wsrc = "none" /\ decoded = <<>>
    /\ op = "init" /\ outcome = "none" /\ verdict = "none"
    /\ recovered = <<>> /\ ntamper = 0
    /\ derived = [len |-> 0, ps |-> NoPS]

\* nothing held yet: the caller signs, is given a signature, or is handed a
\* witness
Fresh == Alive /\ sig = <<>> /\ csig = <<>> /\ wsrc = "none"

CodecGetSignature == Fresh /\ GetSignature

CodecCompactGetSignature == Fresh /\ CompactGetSignature

HoldSignature ==
    /\ Fresh
    /\ sig' \in SampleSignatures(mod)
    /\ op' = "hold"
    /\ UNCHANGED <<mod, secret, message, pk, orig, csig, codec, outcome,
                   verdict, recovered, ntamper, derived>>

HoldCompactSignature ==
    /\ Fresh
    /\ csig' \in SampleCompactSignatures(mod)
    /\ op' = "hold"
    /\ UNCHANGED <<mod, secret, message, pk, sig, orig, codec, outcome,
                   verdict, recovered, ntamper, derived>>

ReceiveWitness ==
    /\ Fresh
    /\ witness' \in SampleWitnesses(mod)
    /\ wsrc' = "external"
    /\ op' = "receive"
    /\ UNCHANGED <<mod, secret, message, pk, sig, orig, csig, decoded,
                   outcome, verdict, recovered, ntamper, derived>>

SignatureToRawWitness ==
    /\ Alive /\ sig # <<>> /\ wsrc = "none"
    /\ witness' = signature_to_raw_witness(sig)
    /\ wsrc' = "full"
    /\ op' = "signature_to_raw_witness"
    /\ UNCHANGED <<mod, secret, message, pk, sig, orig, csig, decoded,
                   outcome, verdict, recovered, ntamper, derived>>

CompactSignatureToRawWitness ==
    /\ Alive /\ csig # <<>> /\ wsrc = "none"
    /\ witness' = compact_signature_to_raw_witness(csig)
    /\ wsrc' = "compact"
    /\ op' = "compact::signature_to_raw_witness"
    /\ UNCHANGED <<mod, secret, message, pk, sig, orig, csig, decoded,
                   outcome, verdict, recovered, ntamper, derived>>

CanDecode ==
    Alive /\ wsrc # "none" /\ op \notin {"raw_witness_to_signature",
                                         "compact::raw_witness_to_signature"}

RawWitnessToSignature ==
    /\ CanDecode
    /\ LET r == raw_witness_to_signature(mod, witness)
       IN  /\ decoded' = r.val
           /\ outcome' = IF r.ok THEN "ok" ELSE r.err
    /\ op' = "raw_witness_to_signature"
    /\ UNCHANGED <<mod, secret, message, pk, sig, orig, csig, witness, wsrc,
                   verdict, recovered, ntamper, derived>>

CompactRawWitnessToSignature ==
    /\ CanDecode
    /\ LET r == compact_raw_witness_to_signature(mod, witness)
       IN  /\ decoded' = r.val
           /\ outcome' = IF r.ok THEN "ok" ELSE r.err
    /\ op' = "compact::raw_witness_to_signature"
    /\ UNCHANGED <<mod, secret, message, pk, sig, orig, csig, witness, wsrc,
                   verdict, recovered, ntamper, derived>>

NextCodec ==
    \/ CodecGetSignature
    \/ CodecCompactGetSignature
    \/ HoldSignature
    \/ HoldCompactSignature
    \/ ReceiveWitness
    \/ SignatureToRawWitness
    \/ CompactSignatureToRawWitness
    \/ RawWitnessToSignature
    \/ CompactRawWitnessToSignature

SpecCodec == InitCodec /\ [][NextCodec]_vars

----------------------------------------------------------------------------
(* Properties of the wire codec, checked under SpecCodec *)

FullDecoded == op = "raw_witness_to_signature"
CompactDecoded == op = "compact::raw_witness_to_signature"

\* C3: decoding what the encoder produced gives back the signature, for the
\* full and for the compact variant, digits 0 and all-zero chain values
\* included.
C3_RoundTrip ==
    /\ (FullDecoded /\ wsrc = "full") => (outcome = "ok" /\ decoded = sig)
    /\ (CompactDecoded /\ wsrc = "compact") =>
           (outcome = "ok" /\ decoded = csig)

C3_Witness ==
    /\ FullDecoded /\ wsrc = "full" /\ decoded = sig
    /\ \E i \in 1..Len(sig) :
           sig[i].digit = 0 /\ sig[i].preimage = Zeros(HashLen)
    /\ \E i \in 1..Len(witness) : witness[i] = <<>>

WrongCount ==
    \/ FullDecoded /\ Len(witness) # 2 * N_DIGITS(mod)
    \/ CompactDecoded /\ Len(witness) # N_DIGITS(mod)

\* C7 as stated: a witness with the wrong number of groups is answered with
\* the error MalformedWitness.
C7_TypedCountError == WrongCount => outcome = "MalformedWitness"

\* C7, amended: a witness with the wrong number of groups makes the decoder
\* panic (a failed conversion, or an index out of bounds); no signature comes
\* back, and a signature that does come back has N_DIGITS positions.
C7_WrongCountPanics ==
    /\ WrongCount => (outcome \in {PanicUnwrap, PanicIndex} /\ decoded = <<>>)
    /\ decoded # <<>> => Len(decoded) = N_DIGITS(mod)

C7_Witness ==
    /\ FullDecoded /\ Len(witness) = 2 * N_DIGITS(OtherMod(mod))
    /\ \A i \in 1..Len(witness) : Len(witness[i]) \in {0, 1, HashLen}
    /\ outcome = PanicUnwrap /\ decoded = <<>>

\* C10 as stated: every signature the full decoder returns has its digits in
\* 0..15.
C10_DecodedDigitsInRange ==
    (FullDecoded /\ outcome = "ok") =>
        \A i \in 1..Len(decoded) : decoded[i].digit \in 0..15

\* C10, amended: get_signature returns digits in 0..15; the full decoder
\* returns, per position, the byte of the digit group (0 for an empty one),
\* so any value in 0..255; the encoder writes a digit as no byte (0) or one
\* byte, and a chain value as 20 bytes.
C10_DigitRange ==
    /\ (op = "get_signature" /\ outcome = "ok") =>
           \A i \in 1..Len(sig) :
               sig[i].digit \in 0..15 /\ Len(sig[i].preimage) = HashLen
    /\ (FullDecoded /\ outcome = "ok") =>
           \A i \in 1..Len(decoded) :
               /\ decoded[i].digit \in 0..255
               /\ decoded[i].digit =
                      IF witness[2 * i] = <<>> THEN 0 ELSE witness[2 * i][1]
               /\ Len(decoded[i].preimage) = HashLen
    /\ wsrc = "full" =>
           \A i \in 1..Len(sig) :
               /\ Len(witness[2 * i - 1]) = HashLen
               /\ witness[2 * i] =
                      IF sig[i].digit = 0 THEN <<>> ELSE <<sig[i].digit>>

C10_Witness ==
    /\ FullDecoded /\ outcome = "ok" /\ wsrc = "external"
    /\ \E i \in 1..Len(decoded) : decoded[i].digit = 200

====
